---------------------------- MODULE Spec2Model ----------------------------
(***************************************************************************)
(* readmill/httputil: the logging, panic-recovering and guarding           *)
(* http.Handler wrapper.  The repository holds two versions of the file:   *)
(* src/httputil.go, whose guard reads the request's Content-Type header,   *)
(* and src/unnamed/part_000, whose guard reads the request's Accept header *)
(* and lets "*/*" through.  The variable `variant' says which one runs.    *)
(***************************************************************************)
EXTENDS Naturals, Sequences, FiniteSets, TLC

(* ------------------------------ bounds -------------------------------- *)

\* Requests that reach Handler.ServeHTTP during a run (each its own goroutine).
MaxReqs == 2

\* Calls an inner handler makes on its writer before it returns or panics.
MaxInnerOps == 2

\* Channels that components other than init() pass to Notify.
MaxExtChans == 1

\* Goroutines that call Notify at the same time.
MaxRacers == 2

\* Characters of the peer address of a connection (r.RemoteAddr).
MaxAddrLen == 5

\* Characters of the message passed to Error.
MaxMsgLen == 2

(* ------------------------- program constants -------------------------- *)

StatusOK == 200
StatusMethodNotAllowed == 405
StatusNotAcceptable == 406
StatusInternalServerError == 500

\* make(chan *Access, 1) in init()
DefaultChanCap == 1

(* ------------------------------ inputs -------------------------------- *)

Reqs == 1..MaxReqs

\* Channel 0 is the one init() makes; the others belong to other components.
DefaultChan == 0
ExtChans == 1..MaxExtChans
Chans == {DefaultChan} \cup ExtChans

\* Capacity of the channels other components make.
ExtChanCap == 1

Methods == {"GET", "DELETE"}

\* A request's Content-Type and Accept headers: <<decl, other>> is the value of
\* the header the running version reads and the value of the one it does not
\* read; "" stands for the header being absent (Header.Get returns "" then).
DeclaredTypes == {<<"", "">>, <<"*/*", "">>, <<"application/json", "">>,
                  <<"text/xml", "">>, <<"", "text/xml">>}

\* The requests of a run: the first one is any request; those that arrive
\* while or after it is served are GET requests with neither header (requests
\* share nothing but the registry and its channels).
Requests(r) ==
    IF r = 1 THEN Methods \X DeclaredTypes ELSE {<<"GET", <<"", "">>>>}

\* Arguments of Handler.Accept.
AcceptArgs == {"", "application/json"}

\* Arguments of Handler.Allow: h.allow is nil until Allow is called, nil
\* again after Allow() with no arguments, and an empty non-nil slice after
\* Allow([]string{}...).
AllowArgs == {[isNil |-> TRUE, ms |-> <<>>],
              [isNil |-> FALSE, ms |-> <<>>],
              [isNil |-> FALSE, ms |-> <<"GET", "POST">>]}

\* Arguments of NewHandler's ctype.
ContentTypes == {"", "application/json"}

\* Status codes the inner handler passes to WriteHeader.
InnerStatuses == {201, 404}

\* The calls an inner handler makes on its writer.
WriterCalls == {<<"WriteHeader", s>> : s \in InnerStatuses} \cup {<<"Write", "body">>}

\* The sequences of at most n of them.
CallSeqs(n) == UNION {[1..k -> WriterCalls] : k \in 0..n}

\* What the inner handler does with request r: the first request's handler
\* makes up to MaxInnerOps calls, that of the others none; either returns or
\* panics.
InnerBehaviours(r) == IF r = 1 THEN CallSeqs(MaxInnerOps) ELSE {<<>>}

\* The goroutines that call Notify at the same time, each with a channel of
\* its own: goroutine g registers channel g.
Registrants == 1..MaxRacers

\* What the inner handler panics with.
PanicValues == {"boom"}

NoPanic == "nil"

VARIABLES
    variant,    \* "ctype" (src/httputil.go) or "accept" (src/unnamed/part_000)
    h,          \* the Handler: contentType, accept, allow
    notify,     \* the package's registry: a sequence of channels
    chanCap,    \* channel -> capacity, for the channels made so far
    chanBuf,    \* channel -> the events buffered in it
    drained,    \* channel -> whether its owner keeps receiving from it
    log,        \* the process log: access lines and panic diagnostics
    pc,         \* request -> where its ServeHTTP goroutine is
    req,        \* request -> the *http.Request
    rw,         \* request -> the ResponseWriter wrapper and the writer under it
    panicking,  \* request -> the value its goroutine is panicking with
    pub,        \* request -> logRequest's loop: the Access, the ranged slice, the index
    hist,       \* request -> history: what happened to the request so far
    delta,      \* request -> ServeHTTP's local delta (0 until it is assigned)
    put,        \* history: the Accesses sent on the channel init() made, in order
    reg,        \* goroutine calling Notify -> where it is, and the slice it read
    pure        \* a call of logRequest's field rules or of Error: input and result

vars == <<variant, h, notify, chanCap, chanBuf, drained, log,
          pc, req, rw, panicking, pub, hist, delta, put, reg, pure>>

(* ------------------------- headers (http.Header) ----------------------- *)

NoHeader == [k \in {} |-> ""]

\* http.Header.Set
HeaderSet(hdr, key, val) ==
    [k \in DOMAIN hdr \cup {key} |-> IF k = key THEN val ELSE hdr[k]]

\* http.Header.Get: "" when the header is absent
HeaderGet(hdr, key) == IF key \in DOMAIN hdr THEN hdr[key] ELSE ""

\* Join with the elements in reverse order.
RECURSIVE JoinReversed(_, _)
JoinReversed(elems, sep) ==
    IF Len(elems) = 0 THEN ""
    ELSE IF Len(elems) = 1 THEN elems[1]
    ELSE JoinReversed(Tail(elems), sep) \o sep \o elems[1]

\* strings.Join
RECURSIVE Join(_, _)
Join(elems, sep) ==
    IF Len(elems) = 0 THEN ""
    ELSE IF Len(elems) = 1 THEN elems[1]
    ELSE elems[1] \o sep \o Join(Tail(elems), sep)

(* ----------------- the writer under the wrapper (net/http) ------------- *)

\* The server's http.ResponseWriter: its header map, the calls it received in
\* order, and the status line it put on the wire (0: none yet).  Only the first
\* status reaches the client; body bytes written before any status send 200.
NewInnerWriter == [hdr |-> NoHeader, calls |-> <<>>, sent |-> 0]

InnerWriteHeader(w, status) ==
    [w EXCEPT !.calls = Append(@, <<"WriteHeader", status>>),
              !.sent = IF @ = 0 THEN status ELSE @]

InnerWrite(w, b) ==
    [w EXCEPT !.calls = Append(@, <<"Write", b>>),
              !.sent = IF @ = 0 THEN StatusOK ELSE @]

InnerHeaderSet(w, key, val) ==
    [w EXCEPT !.hdr = HeaderSet(@, key, val),
              !.calls = Append(@, <<"Header">>)]

(* --------------------------- ResponseWriter ---------------------------- *)

\* &ResponseWriter{inner: w, ContentType: h.contentType}
\* made: history, the calls made on the wrapper, in order.
NewResponseWriter(ctype) ==
    [StatusCode |-> 0, ContentType |-> ctype, inner |-> NewInnerWriter,
     made |-> <<>>]

\* HasStatus with the comparison the wrong way round.
HasStatusInverted(w) == w.StatusCode = 0

HasStatus(w) == w.StatusCode # 0

\* WriteHeader that forwards the call and records nothing.
WriteHeaderForwardOnly(w, status) ==
    [w EXCEPT !.inner = InnerWriteHeader(@, status),
              !.made = Append(@, <<"WriteHeader", status>>)]

WriteHeader(w, status) ==
    [w EXCEPT !.StatusCode = status, !.inner = InnerWriteHeader(@, status),
              !.made = Append(@, <<"WriteHeader", status>>)]

\* Write that records the implicit 200 of a first write.
WriteSetsStatus(w, b) ==
    [w EXCEPT !.StatusCode = IF @ = 0 THEN StatusOK ELSE @,
              !.inner = InnerWrite(@, b),
              !.made = Append(@, <<"Write", b>>)]

\* Write that keeps the bytes to itself.
WriteNotForwarded(w, b) == [w EXCEPT !.made = Append(@, <<"Write", b>>)]

Write(w, b) ==
    [w EXCEPT !.inner = InnerWrite(@, b), !.made = Append(@, <<"Write", b>>)]

\* rw.Header().Set(key, val): Header returns the header map of the writer
\* under the wrapper, and the caller sets the key in it.
SetHeader(w, key, val) ==
    [w EXCEPT !.inner = InnerHeaderSet(@, key, val),
              !.made = Append(@, <<"Header">>)]


(* ------------------------------- Access -------------------------------- *)

\* The Access logRequest builds (the fields the model follows).
NewAccess(r, rq, statusCode, d) ==
    [Request |-> r, Method |-> rq.Method, StatusCode |-> statusCode,
     Duration |-> d]

\* (*Access).String: the log line, by LogFmt (time is counted in milliseconds,
\* so that a.Duration/time.Millisecond is a.Duration)
String(a) ==
    "\"" \o a.Method \o "\" " \o ToString(a.StatusCode) \o " " \o ToString(a.Duration)

(* ------------------------------- Handler ------------------------------- *)

NilSlice == [isNil |-> TRUE, ms |-> <<>>]

NewHandler(ctype) == [contentType |-> ctype, accept |-> "", allow |-> NilSlice]

\* The header the guard reads: r.Header.Get("Content-Type") in
\* src/httputil.go, r.Header.Get("Accept") in src/unnamed/part_000.
GuardHeader(v) == IF v = "ctype" THEN "Content-Type" ELSE "Accept"

\* The type the request declares, as the running version reads it.
Declared(v, rq) == HeaderGet(rq.Header, GuardHeader(v))

\* src/httputil.go: ctype != "" && h.accept != "" && ctype != h.accept
TypeRejectedCtype(hh, rq) ==
    LET ctype == HeaderGet(rq.Header, "Content-Type")
    IN  ctype # "" /\ hh.accept # "" /\ ctype # hh.accept

\* src/unnamed/part_000:
\* mime != "" && mime != "*/*" && h.accept != "" && mime != h.accept
TypeRejectedAccept(hh, rq) ==
    LET mime == HeaderGet(rq.Header, "Accept")
    IN  mime # "" /\ mime # "*/*" /\ hh.accept # "" /\ mime # hh.accept

TypeRejected(v, hh, rq) ==
    IF v = "ctype" THEN TypeRejectedCtype(hh, rq) ELSE TypeRejectedAccept(hh, rq)

\* The loop over h.allow: allowed becomes true at the first m == r.Method.
MethodInList(ms, m) == \E i \in 1..Len(ms) : ms[i] = m

\* if h.allow != nil { ... if !allowed { ... } }
MethodRejected(hh, rq) == ~hh.allow.isNil /\ ~MethodInList(hh.allow.ms, rq.Method)

\* serveRequest without the return after the 406: the method check and the
\* inner handler still run.
serveRequestFallthrough(v, hh, w, rq) ==
    LET w1 == IF TypeRejected(v, hh, rq)
              THEN WriteHeader(SetHeader(w, "Accept", hh.accept), StatusNotAcceptable)
              ELSE w
    IN  IF MethodRejected(hh, rq)
        THEN [w |-> WriteHeader(SetHeader(w1, "Allow", Join(hh.allow.ms, ", ")),
                                StatusMethodNotAllowed),
              callInner |-> FALSE]
        ELSE [w |-> w1, callInner |-> TRUE]

\* serveRequest with the two checks in the other order.
serveRequestMethodFirst(v, hh, w, rq) ==
    IF MethodRejected(hh, rq)
    THEN [w |-> WriteHeader(SetHeader(w, "Allow", Join(hh.allow.ms, ", ")),
                            StatusMethodNotAllowed),
          callInner |-> FALSE]
    ELSE IF TypeRejected(v, hh, rq)
    THEN [w |-> WriteHeader(SetHeader(w, "Accept", hh.accept), StatusNotAcceptable),
          callInner |-> FALSE]
    ELSE [w |-> w, callInner |-> TRUE]

\* Handler.serveRequest up to the call of the inner handler: the writer after
\* the guard, and whether h.inner.ServeHTTP(w, r) is reached.
serveRequest(v, hh, w, rq) ==
    IF TypeRejected(v, hh, rq)
    THEN [w |-> WriteHeader(SetHeader(w, "Accept", hh.accept), StatusNotAcceptable),
          callInner |-> FALSE]
    ELSE IF MethodRejected(hh, rq)
    THEN [w |-> WriteHeader(SetHeader(w, "Allow", Join(hh.allow.ms, ", ")),
                            StatusMethodNotAllowed),
          callInner |-> FALSE]
    ELSE [w |-> w, callInner |-> TRUE]

\* recover() that is not called by the deferred function itself: it returns
\* nil and the panic goes on.
RecoverMissed(p) == [e |-> NoPanic, panicking |-> p]

\* recover() in the deferred function: the value of the panic in flight (nil
\* when there is none); the goroutine stops panicking.
Recover(p) == [e |-> p, panicking |-> NoPanic]

\* The status the deferred function passes to logRequest.
LoggedStatus(w) == IF HasStatus(w) THEN w.StatusCode ELSE StatusOK

(* ------------------- the fields logRequest derives --------------------- *)

\* In this part strings are sequences of characters, "" is <<>>.

\* The characters of a peer address: "h" for any character of a host name or
\* number or of a port, and the three characters net.SplitHostPort looks for.
AddrChars == {"h", ":", "[", "]"}

\* The strings of at most n characters.
Strings(chars, n) == UNION {[1..k -> chars] : k \in 0..n}

PeerAddrs == Strings(AddrChars, MaxAddrLen)

\* The header keys logRequest looks up.
LogKeys == {"Referer", "X-Forwarded-For", "User-Agent"}

\* The values under a key of r.Header as the server parses them: one entry
\* per header line of the request, so at least one; a value may be empty.
HeaderLines == {<<<<>>>>, <<<<"x">>>>, <<<<"x">>, <<"y">>>>}

\* The requests: any part of the three headers, any peer address.
LogHeaders == UNION {[K -> HeaderLines] : K \in SUBSET LogKeys}
LogRequests == [Header : LogHeaders, RemoteAddr : PeerAddrs]

\* bytealg.IndexByteString and LastIndexByteString, counting from 1: 0 when
\* the character does not occur.
IndexByte(str, c) ==
    IF \E i \in 1..Len(str) : str[i] = c
    THEN CHOOSE i \in 1..Len(str) : str[i] = c /\ \A j \in 1..(i - 1) : str[j] # c
    ELSE 0

LastIndexByte(str, c) ==
    IF \E i \in 1..Len(str) : str[i] = c
    THEN CHOOSE i \in 1..Len(str) : str[i] = c /\ \A j \in (i + 1)..Len(str) : str[j] # c
    ELSE 0

\* net.SplitHostPort(hostport): the host, and whether it returned an error.
\* The port starts after the last colon; a host in brackets ends at the first
\* "]", which must stand right before that colon; a host without brackets
\* holds no colon; no other bracket anywhere.
SplitHostPort(hostport) ==
    LET i == LastIndexByte(hostport, ":")
        n == Len(hostport)
        Failed == [host |-> <<>>, err |-> TRUE]
    IN  IF i = 0 THEN Failed
        ELSE IF hostport[1] = "["
        THEN LET end == IndexByte(hostport, "]")
             IN  IF end = 0 \/ end + 1 # i THEN Failed
                 ELSE IF \/ IndexByte(SubSeq(hostport, 2, n), "[") # 0
                         \/ IndexByte(SubSeq(hostport, end + 1, n), "]") # 0
                 THEN Failed
                 ELSE [host |-> SubSeq(hostport, 2, end - 1), err |-> FALSE]
        ELSE LET host == SubSeq(hostport, 1, i - 1)
             IN  IF \/ IndexByte(host, ":") # 0
                    \/ IndexByte(hostport, "[") # 0
                    \/ IndexByte(hostport, "]") # 0
                 THEN Failed
                 ELSE [host |-> host, err |-> FALSE]

\* if h, ok := r.Header["Referer"]; ok { referer = h[0] } else { referer = "-" }
referer(rq) ==
    IF "Referer" \in DOMAIN rq.Header THEN rq.Header["Referer"][1] ELSE <<"-">>

\* The peer address first, X-Forwarded-For only when it cannot be split.
remoteAddrPeerFirst(rq) ==
    LET sp == SplitHostPort(rq.RemoteAddr)
    IN  IF ~sp.err THEN sp.host
        ELSE IF "X-Forwarded-For" \in DOMAIN rq.Header
        THEN rq.Header["X-Forwarded-For"][1]
        ELSE <<"?">>

\* X-Forwarded-For's first value when the header is there, else the host of
\* r.RemoteAddr, else "?" when SplitHostPort returns an error.
remoteAddr(rq) ==
    IF "X-Forwarded-For" \in DOMAIN rq.Header
    THEN rq.Header["X-Forwarded-For"][1]
    ELSE LET sp == SplitHostPort(rq.RemoteAddr)
         IN  IF sp.err THEN <<"?">> ELSE sp.host

userAgent(rq) ==
    IF "User-Agent" \in DOMAIN rq.Header THEN rq.Header["User-Agent"][1] ELSE <<"-">>

(* -------------------------------- Error ------------------------------- *)

\* In this part a string is a sequence of pieces: a character, or a run of
\* characters the code writes as a whole (an escape sequence, a fixed text).
\* "U+00E9" and "U+1F600" are the characters of those code points.
MsgChars == {"a", "\"", "<", "U+00E9", "U+1F600"}

\* The messages passed to Error.
Messages == Strings(MsgChars, MaxMsgLen)

\* The codes passed to Error.
ErrorCodes == {400, 500}

\* The content types a wrapper is made with.
ErrorContentTypes == {"application/json", "text/html", "text/plain", "text/xml", ""}

\* strconv.QuoteToASCII on one character: the quote gets a backslash, other
\* printable ASCII stays, a character beyond ASCII becomes \u and four hex
\* digits up to U+FFFF and \U and eight hex digits above.
QuoteChar(c) ==
    CASE c = "\"" -> "\\\""
      [] c = "U+00E9" -> "\\u00e9"
      [] c = "U+1F600" -> "\\U0001f600"
      [] OTHER -> c

\* strconv.QuoteToASCII: the characters quoted one by one, in double quotes.
QuoteToASCII(str) ==
    <<"\"">> \o [i \in 1..Len(str) |-> QuoteChar(str[i])] \o <<"\"">>

\* html.EscapeString: < > & ' and " become entities, the rest stays.
EscapeString(str) ==
    [i \in 1..Len(str) |->
        CASE str[i] = "<" -> "&lt;"
          [] str[i] = "\"" -> "&#34;"
          [] OTHER -> str[i]]

\* rw, ok := w.(*ResponseWriter): the wrapper is the writer with a ContentType.
IsWrapper(w) == "ContentType" \in DOMAIN w

\* fmt.Sprintf with the format of the running version: `{"error":%s}` in
\* src/httputil.go, `{"error":%s,"status":%d}` in src/unnamed/part_000.
ErrorJSON(v, quoted, code) ==
    IF v = "ctype"
    THEN <<"{\"error\":">> \o quoted \o <<"}">>
    ELSE <<"{\"error\":">> \o quoted \o <<",\"status\":", ToString(code), "}">>

\* The message Error passes on: rewritten by the wrapper's ContentType, and as
\* it came when w is not the wrapper.
ErrorBody(v, w, err, code) ==
    IF IsWrapper(w)
    THEN CASE w.ContentType = "application/json" ->
                ErrorJSON(v, QuoteToASCII(err), code)
           [] w.ContentType = "text/html" -> EscapeString(err)
           [] OTHER -> <<"error: ">> \o err
    ELSE err

\* http.Error(w, error, code): two headers, WriteHeader(code), and the error
\* with a newline as the body; through the wrapper when w is the wrapper.
HTTPError(w, err, code) ==
    IF IsWrapper(w)
    THEN Write(WriteHeader(SetHeader(SetHeader(w,
                    "Content-Type", "text/plain; charset=utf-8"),
                    "X-Content-Type-Options", "nosniff"), code),
               err \o <<"\n">>)
    ELSE InnerWrite(InnerWriteHeader(InnerHeaderSet(InnerHeaderSet(w,
                    "Content-Type", "text/plain; charset=utf-8"),
                    "X-Content-Type-Options", "nosniff"), code),
               err \o <<"\n">>)

Error(v, w, err, code) == HTTPError(w, ErrorBody(v, w, err, code), code)

(* -------------------------------- Init --------------------------------- *)

NoReq == [Method |-> "", Header |-> NoHeader]
NoPub == [access |-> NewAccess(0, NoReq, 0, 0), chans |-> <<>>, i |-> 0]
\* History of a request: whether the inner handler was called, whether it
\* panicked and the writer as it was then, the channels logRequest has sent
\* the request's Access on, in order, the time from t := time.Now() to the
\* end of h.serveRequest(rw, r), by return or by panic, and the goroutines
\* whose Notify had returned when logRequest's loop began.
NoHist == [innerCalled |-> FALSE, panicked |-> FALSE,
           atPanic |-> NewResponseWriter(""), sends |-> <<>>, elapsed |-> 0,
           after |-> {}]

\* A goroutine that is not in Notify, and no call under study.
NoReg == [pc |-> "idle", local |-> <<>>]
NoCall == [op |-> "none"]

\* The state once init() has run and NewHandler has returned.
Init ==
    /\ reg = [g \in Registrants |-> NoReg]
    /\ pure = NoCall
    /\ variant \in {"ctype", "accept"}
    /\ \E ctype \in ContentTypes : h = NewHandler(ctype)
    /\ notify = <<DefaultChan>>
    /\ chanCap = (DefaultChan :> DefaultChanCap)
    /\ chanBuf = (DefaultChan :> <<>>)
    /\ drained = (DefaultChan :> TRUE)
    /\ log = <<>>
    /\ pc = [r \in Reqs |-> "idle"]
    /\ req = [r \in Reqs |-> NoReq]
    /\ rw = [r \in Reqs |-> NewResponseWriter("")]
    /\ panicking = [r \in Reqs |-> NoPanic]
    /\ pub = [r \in Reqs |-> NoPub]
    /\ hist = [r \in Reqs |-> NoHist]
    /\ delta = [r \in Reqs |-> 0]
    /\ put = <<>>

NoneArrived == \A r \in Reqs : pc[r] = "idle"

(* ------------------------------- set-up -------------------------------- *)

\* Handler.Accept, called during set-up
Accept(mime) ==
    /\ NoneArrived
    /\ h' = [h EXCEPT !.accept = mime]
    /\ UNCHANGED <<reg, pure, delta, put, variant, notify, chanCap, chanBuf, drained, log,
                   pc, req, rw, panicking, pub, hist>>

\* Handler.Allow, called during set-up
Allow(methods) ==
    /\ NoneArrived
    /\ h' = [h EXCEPT !.allow = methods]
    /\ UNCHANGED <<reg, pure, delta, put, variant, notify, chanCap, chanBuf, drained, log,
                   pc, req, rw, panicking, pub, hist>>

\* Notify(ch), with a channel the caller has just made and (reads) does or
\* does not keep receiving from.
Notify(ch, reads) ==
    /\ ch \notin DOMAIN chanCap
    /\ \A c \in ExtChans : c < ch => c \in DOMAIN chanCap
    /\ notify' = Append(notify, ch)
    /\ chanCap' = chanCap @@ (ch :> ExtChanCap)
    /\ chanBuf' = chanBuf @@ (ch :> <<>>)
    /\ drained' = drained @@ (ch :> reads)
    /\ UNCHANGED <<reg, pure, delta, put, variant, h, log, pc, req, rw, panicking, pub, hist>>

(* ----------------------------- ServeHTTP ------------------------------ *)

\* The headers of a request that declares `decl' in the header the guard reads
\* and `other' in the other one of Content-Type and Accept.
RequestHeader(v, decl, other) ==
    LET k1 == GuardHeader(v)
        k2 == IF v = "ctype" THEN "Accept" ELSE "Content-Type"
        h1 == IF decl = "" THEN NoHeader ELSE HeaderSet(NoHeader, k1, decl)
    IN  IF other = "" THEN h1 ELSE HeaderSet(h1, k2, other)

\* The writer ServeHTTP starts with: the wrapper, with the Content-Type
\* response header set to h.contentType.
StartWriter(hh) ==
    SetHeader(NewResponseWriter(hh.contentType), "Content-Type", hh.contentType)

\* time.Since(t) at the end of h.serveRequest(rw, r), for t := time.Now() taken
\* right before the call: the clock ticks once for the call and once for every
\* call it makes on the writer.
Since(hh, w) == Len(w.inner.calls) - Len(StartWriter(hh).inner.calls) + 1

\* A request reaches Handler.ServeHTTP, which makes rw, sets the Content-Type
\* header, installs the deferred function and calls h.serveRequest(rw, r): the
\* guard rejects the request and returns (delta is set and the deferred
\* function is due), or calls the inner handler.
ServeHTTP(r, m, decl, other) ==
    /\ pc[r] = "idle"
    /\ r > 1 => pc[r - 1] # "idle"
    /\ LET rq == [Method |-> m, Header |-> RequestHeader(variant, decl, other)]
           g == serveRequest(variant, h, StartWriter(h), rq)
       IN  /\ req' = [req EXCEPT ![r] = rq]
           /\ rw' = [rw EXCEPT ![r] = g.w]
           /\ pc' = [pc EXCEPT ![r] = IF g.callInner THEN "inner" ELSE "deferred"]
           /\ hist' = [hist EXCEPT ![r].innerCalled = g.callInner,
                                   ![r].elapsed = IF g.callInner THEN 0 ELSE Since(h, g.w)]
           /\ delta' = [delta EXCEPT ![r] = IF g.callInner THEN 0 ELSE Since(h, g.w)]
    /\ UNCHANGED <<reg, pure, put, variant, h, notify, chanCap, chanBuf, drained, log,
                   panicking, pub>>

\* The writer after the inner handler has made `calls' on it, in order.
RECURSIVE InnerCalls(_, _)
InnerCalls(w, calls) ==
    IF calls = <<>> THEN w
    ELSE LET c == Head(calls)
         IN  InnerCalls(IF c[1] = "WriteHeader" THEN WriteHeader(w, c[2])
                        ELSE Write(w, c[2]),
                        Tail(calls))

\* h.inner.ServeHTTP(w, r): the inner handler makes its calls on the writer and
\* returns (serveRequest returns, delta is set, the deferred function is due)
\* or panics with e (the stack unwinds to the deferred function).
InnerServeHTTP(r, calls, e) ==
    /\ pc[r] = "inner"
    /\ LET w1 == InnerCalls(rw[r], calls)
       IN  /\ rw' = [rw EXCEPT ![r] = w1]
           /\ hist' = [hist EXCEPT ![r].panicked = (e # NoPanic),
                                   ![r].atPanic = IF e # NoPanic THEN w1 ELSE @,
                                   ![r].elapsed = Since(h, w1)]
           /\ delta' = [delta EXCEPT ![r] = IF e = NoPanic THEN Since(h, w1) ELSE @]
    /\ panicking' = [panicking EXCEPT ![r] = e]
    /\ pc' = [pc EXCEPT ![r] = "deferred"]
    /\ UNCHANGED <<reg, pure, put, variant, h, notify, chanCap, chanBuf, drained, log, req, pub>>

\* The deferred function up to logRequest's loop: recover, force 500 when the
\* writer has no status, write the diagnostic, pick the status to log, build
\* the Access and range over notify (the slice is read once, here).
Deferred(r) ==
    /\ pc[r] = "deferred"
    /\ LET rec == Recover(panicking[r])
           w1 == IF rec.e # NoPanic /\ ~HasStatus(rw[r])
                 THEN WriteHeader(rw[r], StatusInternalServerError)
                 ELSE rw[r]
       IN  /\ panicking' = [panicking EXCEPT ![r] = rec.panicking]
           /\ rw' = [rw EXCEPT ![r] = w1]
           /\ log' = IF rec.e # NoPanic
                     THEN Append(log, [kind |-> "panic", e |-> rec.e, goroutine |-> r])
                     ELSE log
           /\ pub' = [pub EXCEPT ![r] =
                        [access |-> NewAccess(r, req[r], LoggedStatus(w1), delta[r]),
                         chans |-> notify, i |-> 1]]
    /\ hist' = [hist EXCEPT ![r].after = {g \in Registrants : reg[g].pc = "returned"}]
    /\ pc' = [pc EXCEPT ![r] = "publish"]
    /\ UNCHANGED <<reg, pure, delta, put, variant, h, notify, chanCap, chanBuf, drained, req>>

\* The loop ending one element early.
LoopDoneEarly(p) == p.i >= Len(p.chans)

\* for _, ch := range notify: the loop is over once every element of the
\* ranged slice has had its turn.
LoopDone(p) == p.i > Len(p.chans)

\* Whether a send on channel c goes through now: there is room in its buffer.
CanSend(c) == Len(chanBuf[c]) < chanCap[c]

\* One iteration of logRequest's loop: ch <- &Access{...}.  The send blocks
\* until the channel takes the value.
Send(r) ==
    /\ pc[r] = "publish"
    /\ ~LoopDone(pub[r])
    /\ LET c == pub[r].chans[pub[r].i]
       IN  /\ CanSend(c)
           /\ chanBuf' = [chanBuf EXCEPT ![c] = Append(@, pub[r].access)]
           /\ hist' = [hist EXCEPT ![r].sends = Append(@, c)]
           /\ put' = IF c = DefaultChan THEN Append(put, pub[r].access) ELSE put
    /\ pub' = [pub EXCEPT ![r].i = @ + 1]
    /\ UNCHANGED <<reg, pure, delta, variant, h, notify, chanCap, drained, log,
                   pc, req, rw, panicking>>

\* The loop is over: logRequest and the deferred function return, and
\* ServeHTTP returns to the server, or goes on panicking when the panic was
\* not recovered.  The request, its writer and logRequest's locals are gone.
Return(r) ==
    /\ pc[r] = "publish"
    /\ LoopDone(pub[r])
    /\ pc' = [pc EXCEPT ![r] = IF panicking[r] = NoPanic THEN "done" ELSE "crashed"]
    /\ req' = [req EXCEPT ![r] = NoReq]
    /\ rw' = [rw EXCEPT ![r] = NewResponseWriter("")]
    /\ pub' = [pub EXCEPT ![r] = NoPub]
    /\ hist' = [hist EXCEPT ![r].atPanic = NewResponseWriter(""), ![r].elapsed = 0]
    /\ delta' = [delta EXCEPT ![r] = 0]
    /\ UNCHANGED <<reg, pure, put, variant, h, notify, chanCap, chanBuf, drained, log,
                   panicking>>

(* ------------------------------ the sinks ------------------------------ *)

\* The goroutine receiving without printing.
DefaultSinkSilent ==
    /\ chanBuf[DefaultChan] # <<>>
    /\ chanBuf' = [chanBuf EXCEPT ![DefaultChan] = Tail(@)]
    /\ UNCHANGED <<reg, pure, delta, put, variant, h, notify, chanCap, drained, log,
                   pc, req, rw, panicking, pub, hist>>

\* init()'s goroutine: log.Println((<-ch).String())
DefaultSink ==
    /\ chanBuf[DefaultChan] # <<>>
    /\ log' = Append(log, [kind |-> "access", line |-> String(Head(chanBuf[DefaultChan]))])
    /\ chanBuf' = [chanBuf EXCEPT ![DefaultChan] = Tail(@)]
    /\ UNCHANGED <<reg, pure, delta, put, variant, h, notify, chanCap, drained,
                   pc, req, rw, panicking, pub, hist>>

\* The owner of a buffered channel passed to Notify receives from it.
ExtSink(c) ==
    /\ c \in DOMAIN chanCap
    /\ drained[c]
    /\ chanBuf[c] # <<>>
    /\ chanBuf' = [chanBuf EXCEPT ![c] = Tail(@)]
    /\ UNCHANGED <<reg, pure, delta, put, variant, h, notify, chanCap, drained, log,
                   pc, req, rw, panicking, pub, hist>>

(* ------------------------------- Next ---------------------------------- *)

Next ==
    \/ \E mime \in AcceptArgs : Accept(mime)
    \/ \E methods \in AllowArgs : Allow(methods)
    \/ \E ch \in ExtChans, reads \in BOOLEAN : Notify(ch, reads)
    \/ \E r \in Reqs : \E in \in Requests(r) : ServeHTTP(r, in[1], in[2][1], in[2][2])
    \/ \E r \in Reqs : \E calls \in InnerBehaviours(r), e \in PanicValues \cup {NoPanic} :
          InnerServeHTTP(r, calls, e)
    \/ \E r \in Reqs : Deferred(r)
    \/ \E r \in Reqs : Send(r)
    \/ \E r \in Reqs : Return(r)
    \/ DefaultSink
    \/ \E c \in ExtChans : ExtSink(c)

Spec == Init /\ [][Next]_vars

(* ------------------ logRequest's fields, on their own ------------------ *)

\* The server at rest: init() has run, NewHandler has returned, nothing else;
\* `made' are the channels made so far, all with a receiver.
AtRestWith(made) ==
    /\ variant \in {"ctype", "accept"}
    /\ h = NewHandler("")
    /\ notify = <<DefaultChan>>
    /\ chanCap = [c \in made |-> IF c = DefaultChan THEN DefaultChanCap ELSE ExtChanCap]
    /\ chanBuf = [c \in made |-> <<>>]
    /\ drained = [c \in made |-> TRUE]
    /\ log = <<>>
    /\ pc = [r \in Reqs |-> "idle"]
    /\ req = [r \in Reqs |-> NoReq]
    /\ rw = [r \in Reqs |-> NewResponseWriter("")]
    /\ panicking = [r \in Reqs |-> NoPanic]
    /\ pub = [r \in Reqs |-> NoPub]
    /\ hist = [r \in Reqs |-> NoHist]
    /\ delta = [r \in Reqs |-> 0]
    /\ put = <<>>
    /\ reg = [g \in Registrants |-> NoReg]

AtRest == AtRestWith({DefaultChan})

server == <<variant, h, notify, chanCap, chanBuf, drained, log,
            pc, req, rw, panicking, pub, hist, delta, put, reg>>

NoFields == [RemoteAddr |-> <<>>, Referer |-> <<>>, UserAgent |-> <<>>]

\* logRequest is about to be called with request r.
LogInit ==
    /\ AtRest
    /\ \E rq \in LogRequests :
          pure = [op |-> "logRequest", r |-> rq, done |-> FALSE, a |-> NoFields]

\* logRequest up to its loop: the three fields of the Access it derives from
\* the request.
LogFields ==
    /\ pure.op = "logRequest"
    /\ ~pure.done
    /\ pure' = [pure EXCEPT !.done = TRUE,
                            !.a = [RemoteAddr |-> remoteAddr(pure.r),
                                   Referer |-> referer(pure.r),
                                   UserAgent |-> userAgent(pure.r)]]
    /\ UNCHANGED server

LogNext == LogFields

LogSpec == LogInit /\ [][LogNext]_vars

(* ------------------- Notify called by several goroutines -------------- *)

\* notify = append(notify, ch) is a read of the package variable, the append
\* to what was read, and a write of the package variable; nothing orders the
\* steps of two goroutines.  Goroutine g registers channel g.

\* The read.
NotifyLoad(g) ==
    /\ reg[g].pc = "idle"
    /\ reg' = [reg EXCEPT ![g] = [pc |-> "loaded", local |-> notify]]
    /\ UNCHANGED <<pure, delta, put, variant, h, notify, chanCap, chanBuf, drained,
                   log, pc, req, rw, panicking, pub, hist>>

\* The append and the write; Notify returns.
NotifyStore(g) ==
    /\ reg[g].pc = "loaded"
    /\ notify' = Append(reg[g].local, g)
    /\ reg' = [reg EXCEPT ![g] = [pc |-> "returned", local |-> <<>>]]
    /\ UNCHANGED <<pure, delta, put, variant, h, chanCap, chanBuf, drained,
                   log, pc, req, rw, panicking, pub, hist>>

\* The goroutines have made their channels and receive from them.
NotifyInit == AtRestWith({DefaultChan} \cup Registrants) /\ pure = NoCall

\* Requests without headers whose handler returns at once are served while
\* the goroutines register.
NotifyNext ==
    \/ \E g \in Registrants : NotifyLoad(g)
    \/ \E g \in Registrants : NotifyStore(g)
    \/ \E r \in Reqs : ServeHTTP(r, "GET", "", "")
    \/ \E r \in Reqs : InnerServeHTTP(r, <<>>, NoPanic)
    \/ \E r \in Reqs : Deferred(r)
    \/ \E r \in Reqs : Send(r)
    \/ \E r \in Reqs : Return(r)
    \/ DefaultSink
    \/ \E c \in Registrants : ExtSink(c)

NotifySpec == NotifyInit /\ [][NotifyNext]_vars

(* ------------------------- the default sink alone ---------------------- *)

\* What the inner handlers do here: nothing, or set a status; return or panic.
SinkBehaviours == {<<>>, <<<<"WriteHeader", 404>>>>}

SinkInit == AtRest /\ pure = NoCall

\* Requests are served with init()'s channel as the only one registered.
SinkNext ==
    \/ \E r \in Reqs, m \in Methods : ServeHTTP(r, m, "", "")
    \/ \E r \in Reqs : \E calls \in SinkBehaviours, e \in PanicValues \cup {NoPanic} :
          InnerServeHTTP(r, calls, e)
    \/ \E r \in Reqs : Deferred(r)
    \/ \E r \in Reqs : Send(r)
    \/ \E r \in Reqs : Return(r)
    \/ DefaultSink

\* init()'s goroutine is a loop around a receive and a Println, and the Go
\* scheduler does not starve a goroutine that can run.
SinkSpec == SinkInit /\ [][SinkNext]_vars /\ WF_vars(DefaultSink)

(* --------------------------- Error, on its own -------------------------- *)

\* The writers Error is called with: the wrapper ServeHTTP made for a handler
\* of some content type, fresh or after the inner handler set a status, and
\* a writer of the server that is not the wrapper.
ErrorWriters ==
    {NewInnerWriter}
    \cup {SetHeader(NewResponseWriter(ct), "Content-Type", ct) : ct \in ErrorContentTypes}
    \cup {WriteHeader(SetHeader(NewResponseWriter(ct), "Content-Type", ct), s) :
             ct \in ErrorContentTypes, s \in InnerStatuses}

\* Error is about to be called.
ErrInit ==
    /\ AtRest
    /\ \E w \in ErrorWriters, msg \in Messages, code \in ErrorCodes :
          pure = [op |-> "Error", w0 |-> w, err |-> msg, code |-> code,
                  done |-> FALSE, w |-> w]

\* Error(w, err, code)
CallError ==
    /\ pure.op = "Error"
    /\ ~pure.done
    /\ pure' = [pure EXCEPT !.done = TRUE,
                            !.w = Error(variant, pure.w0, pure.err, pure.code)]
    /\ UNCHANGED server

ErrNext == CallError

ErrSpec == ErrInit /\ [][ErrNext]_vars

(* ============================= the claims ============================= *)

\* How often x occurs in seq.
Count(seq, x) == Cardinality({i \in 1..Len(seq) : seq[i] = x})

\* The elements of a sequence, as a set.
Range(seq) == {seq[i] : i \in 1..Len(seq)}

\* The WriteHeader calls among the calls the writer under the wrapper received.
WriteHeaderCalls(calls) == SelectSeq(calls, LAMBDA c : c[1] = "WriteHeader")

\* The calls other than header accesses.
StatusAndBodyCalls(calls) == SelectSeq(calls, LAMBDA c : c[1] # "Header")

\* The request's Access has been built and is being published.
Publishing(r) == pc[r] = "publish"

\* The channel the request's goroutine is about to send on.
SendingOn(r) == pub[r].chans[pub[r].i]

\* C1: for every invocation of ServeHTTP, each registered sink channel gets
\* exactly one Access of that request: its Access is never sent twice on a
\* channel and only on registered channels; when logRequest's loop is over
\* every channel that was in the registry when publishing began has been sent
\* it exactly once; and a ServeHTTP that has returned has published; whether
\* the inner handler returned, panicked or was never called.
C1_ExactlyOneEventPerSink ==
    \A r \in Reqs :
        /\ \A c \in Range(hist[r].sends) :
              c \in Range(notify) /\ Count(hist[r].sends, c) = 1
        /\ (Publishing(r) /\ LoopDone(pub[r])) =>
              \A c \in Range(pub[r].chans) : Count(hist[r].sends, c) = 1
        /\ Publishing(r) => Range(hist[r].sends) \subseteq Range(pub[r].chans)
        /\ pc[r] = "done" => DefaultChan \in Range(hist[r].sends)

\* C1's case: a request the guard rejected has returned with its Access sent
\* on both registered channels, and so has one whose inner handler panicked.
C1_Witness ==
    /\ pc[1] = "done" /\ ~hist[1].innerCalled /\ hist[1].sends = <<DefaultChan, 1>>
    /\ pc[2] = "done" /\ hist[2].panicked /\ hist[2].sends = <<DefaultChan, 1>>

\* C2: publishing never blocks the request: a request about to send on a
\* channel nobody receives from can always do so at once, also when the
\* channel is full.
C2_PublishNeverBlocks ==
    \A r \in Reqs :
        (Publishing(r) /\ ~LoopDone(pub[r]) /\ ~drained[SendingOn(r)])
            => CanSend(SendingOn(r))

\* C3: no failure of the inner handler escapes the wrapper: a panic is always
\* in the hands of the deferred function or recovered, no goroutine leaves
\* ServeHTTP panicking, and a ServeHTTP that has ended has returned normally.
C3_NoPanicEscapes ==
    \A r \in Reqs :
        /\ pc[r] # "crashed"
        /\ panicking[r] # NoPanic => pc[r] = "deferred"
        /\ hist[r].panicked => pc[r] \in {"deferred", "publish", "done"}
        /\ pc[r] \in {"publish", "done"} => panicking[r] = NoPanic

\* C3's case: the first request's inner handler panicked and its ServeHTTP has
\* returned, and a request served at the same time has returned as well.
C3_Witness ==
    /\ pc[1] = "done" /\ hist[1].panicked
    /\ pc[2] = "done" /\ hist[2].innerCalled /\ ~hist[2].panicked

\* C4: when the inner handler panicked, the status in the Access is 500 if the
\* writer had no status at the panic (and 500 was then sent to the writer), and
\* the status the writer had otherwise (and the writer was left as it was); in
\* both cases the operator log holds the diagnostic of that panic.
C4_PanicStatus ==
    \A r \in Reqs :
        (Publishing(r) /\ hist[r].panicked) =>
            /\ IF hist[r].atPanic.StatusCode = 0
               THEN /\ pub[r].access.StatusCode = StatusInternalServerError
                    /\ rw[r] = [hist[r].atPanic EXCEPT
                                  !.StatusCode = StatusInternalServerError,
                                  !.inner = InnerWriteHeader(@, StatusInternalServerError),
                                  !.made = Append(@, <<"WriteHeader", StatusInternalServerError>>)]
               ELSE /\ pub[r].access.StatusCode = hist[r].atPanic.StatusCode
                    /\ rw[r] = hist[r].atPanic
            /\ \E i \in 1..Len(log) : log[i].kind = "panic" /\ log[i].goroutine = r

\* C4's case: the inner handler set 404 and then panicked.
C4_Witness ==
    /\ Publishing(1) /\ hist[1].panicked
    /\ hist[1].atPanic.StatusCode = 404
    /\ pub[1].access.StatusCode = 404

\* C5: the captured status is that of the first WriteHeader call: whatever
\* calls were made on the wrapper, StatusCode, and the status in the Access,
\* equal the code of the first WriteHeader call the writer under it received.
C5_FirstWriteHeaderWins ==
    \A r \in Reqs :
        LET whs == WriteHeaderCalls(rw[r].inner.calls)
        IN  (pc[r] \in {"deferred", "publish"} /\ whs # <<>>) =>
                /\ rw[r].StatusCode = whs[1][2]
                /\ Publishing(r) => pub[r].access.StatusCode = whs[1][2]

\* C6: when the inner handler returned without ever calling WriteHeader,
\* having written body bytes or not, the status in the Access is 200 and the
\* captured status is still unset.
C6_DefaultStatusOK ==
    \A r \in Reqs :
        (/\ Publishing(r)
         /\ hist[r].innerCalled /\ ~hist[r].panicked
         /\ WriteHeaderCalls(rw[r].inner.calls) = <<>>) =>
            /\ pub[r].access.StatusCode = StatusOK
            /\ rw[r].StatusCode = 0

\* C6's case: the inner handler wrote body bytes, set no status and returned.
C6_Witness ==
    /\ Publishing(1) /\ hist[1].innerCalled /\ ~hist[1].panicked
    /\ StatusAndBodyCalls(rw[1].inner.calls) = <<<<"Write", "body">>, <<"Write", "body">>>>
    /\ pub[1].access.StatusCode = StatusOK

Guarded(r) == pc[r] \in {"inner", "deferred", "publish"}

\* The methods joined by ", " in their order, built from the left.
RECURSIVE CommaJoined(_)
CommaJoined(ms) ==
    IF ms = <<>> THEN ""
    ELSE IF Len(ms) = 1 THEN ms[1]
    ELSE CommaJoined(SubSeq(ms, 1, Len(ms) - 1)) \o ", " \o ms[Len(ms)]

\* An allowed-methods list is configured and the request's method is not in it.
MethodNotInList(r) == ~h.allow.isNil /\ req[r].Method \notin Range(h.allow.ms)

\* An accepted type is configured and the request declares a different,
\* explicit type.
DeclaresOtherType(r) ==
    /\ h.accept # ""
    /\ Declared(variant, req[r]) \notin {"", "*/*", h.accept}

\* The type check lets the request through: no accepted type is configured, or
\* the request declares no type or the accepted one, or it declares "*/*" and
\* the guard reads the Accept header.
PassesTypeCheck(r) ==
    \/ h.accept = ""
    \/ Declared(variant, req[r]) \in {"", h.accept}
    \/ variant = "accept" /\ Declared(variant, req[r]) = "*/*"

\* The response is a 405 with the Allow header and the inner handler was not called.
Rejected405(r) ==
    /\ rw[r].inner.sent = StatusMethodNotAllowed
    /\ "Allow" \in DOMAIN rw[r].inner.hdr
    /\ rw[r].inner.hdr["Allow"] = CommaJoined(h.allow.ms)
    /\ ~hist[r].innerCalled

\* The response is a 406 with the Accept header and the inner handler was not called.
Rejected406(r) ==
    /\ rw[r].inner.sent = StatusNotAcceptable
    /\ "Accept" \in DOMAIN rw[r].inner.hdr
    /\ rw[r].inner.hdr["Accept"] = h.accept
    /\ ~hist[r].innerCalled

C9_NotAcceptable ==
    \A r \in Reqs : (Guarded(r) /\ DeclaresOtherType(r)) => Rejected406(r)

\* C9's case: a request declaring text/xml under Accept("application/json").
C9_Witness ==
    /\ Guarded(1) /\ h.accept = "application/json"
    /\ Declared(variant, req[1]) = "text/xml"
    /\ rw[1].inner.sent = StatusNotAcceptable
    /\ rw[1].inner.hdr["Accept"] = "application/json"
    /\ ~hist[1].innerCalled

\* The guard rejected the request: it returned without calling the inner handler.
GuardRejected(r) == pc[r] \in {"deferred", "publish"} /\ ~hist[r].innerCalled

\* At most one rejection path ran: the guard set the status once and set at
\* most one of the Allow and Accept headers.
OneRejection(r) ==
    /\ Len(WriteHeaderCalls(rw[r].inner.calls)) = 1
    /\ ~({"Allow", "Accept"} \subseteq DOMAIN rw[r].inner.hdr)

C14_DurationIsElapsed ==
    \A r \in Reqs : Publishing(r) => pub[r].access.Duration = hist[r].elapsed

\* C15 as stated: when the allowed-methods list is unset or empty (Allow never
\* called, called with no methods or with an empty list), no request gets a 405.
C15_EmptyAllowAdmitsAll ==
    \A r \in Reqs :
        (Guarded(r) /\ h.allow.ms = <<>>) =>
            rw[r].inner.sent # StatusMethodNotAllowed

\* The request declares no type, the wildcard or exactly the accepted type, or
\* no accepted type is configured.
DeclaresAcceptableType(r) ==
    \/ h.accept = ""
    \/ Declared(variant, req[r]) \in {"", "*/*", h.accept}

\* C16 as stated: a request that declares no type, "*/*" or exactly the
\* configured type, and any request when no accepted type is configured, is
\* never rejected with 406 and reaches the method check: it gets the 405 when
\* its method is not in the configured list and the inner handler otherwise.
C16_AcceptableTypePasses ==
    \A r \in Reqs :
        (Guarded(r) /\ DeclaresAcceptableType(r)) =>
            /\ rw[r].inner.sent # StatusNotAcceptable
            /\ "Accept" \notin DOMAIN rw[r].inner.hdr
            /\ IF MethodNotInList(r) THEN Rejected405(r) ELSE hist[r].innerCalled

\* The status of the last WriteHeader call among the calls, 0 when there is none.
LastStatus(calls) ==
    LET whs == WriteHeaderCalls(calls)
    IN  IF whs = <<>> THEN 0 ELSE whs[Len(whs)][2]

\* C17: the wrapper is transparent: the calls the writer under it received are
\* the calls made on the wrapper, each once, with the same arguments and in the
\* same order; and the captured status is that of the last WriteHeader call
\* made on the wrapper (unset when there was none), so no Write or Header call
\* changed it.
C17_Transparent ==
    \A r \in Reqs :
        /\ rw[r].inner.calls = rw[r].made
        /\ rw[r].StatusCode = LastStatus(rw[r].made)

\* C17's case: the layer set the Content-Type header and the inner handler
\* called WriteHeader(404) and Write on the wrapper; after the Write the
\* captured status is still 404.
C17_Witness ==
    /\ Publishing(1)
    /\ rw[1].made = <<<<"Header">>, <<"WriteHeader", 404>>, <<"Write", "body">>>>
    /\ rw[1].inner.calls = rw[1].made
    /\ rw[1].StatusCode = 404

\* C19 as stated: the response has a Content-Type header exactly when the
\* handler was configured with a content type; it is then the configured type
\* and it is set before the guard and the inner handler act on the writer, so
\* that the 405, 406 and forced 500 responses have it too.
C19_ContentTypeOnlyIfConfigured ==
    \A r \in Reqs :
        Guarded(r) =>
            /\ "Content-Type" \in DOMAIN rw[r].inner.hdr <=> h.contentType # ""
            /\ h.contentType # "" =>
                  /\ rw[r].inner.hdr["Content-Type"] = h.contentType
                  /\ rw[r].inner.calls[1] = <<"Header">>

\* The status line the client received: the first status the writer under the
\* wrapper was given, or the 200 it took when body bytes came first or when
\* the handler returned without any.
SentStatus(w) == IF w.inner.sent = 0 THEN StatusOK ELSE w.inner.sent

\* C20 as stated: the status in the Access is the status the writer under the
\* wrapper sent to the client, for every sequence of Write and WriteHeader
\* calls followed by a return or a panic of the inner handler.
C20_LoggedStatusIsSentStatus ==
    \A r \in Reqs : Publishing(r) => pub[r].access.StatusCode = SentStatus(rw[r])

\* No colon and no bracket in the string.
Plain(str) == \A i \in 1..Len(str) : str[i] \notin {":", "[", "]"}

\* The hosts of a peer address: host when it is host:port, host and port
\* without colon and bracket, or [host]:port, host without bracket and port
\* without colon and bracket.  No host when it is of neither form.
HostsOf(addr) ==
    LET n == Len(addr)
    IN  {SubSeq(addr, 1, i - 1) :
            i \in {j \in 1..n : /\ addr[j] = ":"
                                /\ Plain(SubSeq(addr, 1, j - 1))
                                /\ Plain(SubSeq(addr, j + 1, n))}}
        \cup
        {SubSeq(addr, 2, i - 2) :
            i \in {j \in 3..n : /\ addr[1] = "[" /\ addr[j - 1] = "]" /\ addr[j] = ":"
                                /\ \A k \in 2..(j - 2) : addr[k] \notin {"[", "]"}
                                /\ Plain(SubSeq(addr, j + 1, n))}}

\* C11: in the Access, a missing Referer header gives referer "-" and a
\* missing User-Agent header user agent "-" (a header that is there gives its
\* first value); the remote address is the first X-Forwarded-For value when
\* that header is there, otherwise the host part of the peer address when it
\* is of the form host:port or [host]:port, otherwise "?"; every request has
\* its three fields built.
C11_AccessFields ==
    (pure.op = "logRequest" /\ pure.done) =>
        LET hd == pure.r.Header
            addr == pure.r.RemoteAddr
        IN  /\ pure.a.Referer =
                  IF "Referer" \in DOMAIN hd THEN hd["Referer"][1] ELSE <<"-">>
            /\ pure.a.UserAgent =
                  IF "User-Agent" \in DOMAIN hd THEN hd["User-Agent"][1] ELSE <<"-">>
            /\ "X-Forwarded-For" \in DOMAIN hd =>
                  pure.a.RemoteAddr = hd["X-Forwarded-For"][1]
            /\ "X-Forwarded-For" \notin DOMAIN hd =>
                  IF HostsOf(addr) # {}
                  THEN pure.a.RemoteAddr \in HostsOf(addr)
                  ELSE pure.a.RemoteAddr = <<"?">>

\* C11's case: a request with none of the three headers from peer [h]:h.
C11_Witness ==
    /\ pure.op = "logRequest" /\ pure.done
    /\ DOMAIN pure.r.Header = {}
    /\ pure.r.RemoteAddr = <<"[", "h", "]", ":", "h">>
    /\ pure.a = [RemoteAddr |-> <<"h">>, Referer |-> <<"-">>, UserAgent |-> <<"-">>]

\* The calls the server's writer received: those of the writer under the
\* wrapper, or of w itself when it is not the wrapper.
Received(w) == IF IsWrapper(w) THEN w.inner.calls ELSE w.calls

\* The character a piece of a JSON string stands for (RFC 8259): a character
\* other than the quote and the backslash for itself, \" for the quote, \u and
\* four hex digits for that code point; "invalid" for anything else.
JSONChar(piece) ==
    CASE piece \in {"a", "<", "U+00E9", "U+1F600"} -> piece
      [] piece = "\\\"" -> "\""
      [] piece = "\\u00e9" -> "U+00E9"
      [] OTHER -> "invalid"

\* The body is a JSON object whose first member is error with the message as
\* its value, and whose other member, if any, is status with the code.
IsJSONError(body, msg, code) ==
    \E tail \in {<<"\"", "}">>, <<"\"", ",\"status\":", ToString(code), "}">>} :
        LET n == Len(body) - 2 - Len(tail)
        IN  /\ n = Len(msg)
            /\ SubSeq(body, 1, 2) = <<"{\"error\":", "\"">>
            /\ SubSeq(body, n + 3, Len(body)) = tail
            /\ \A i \in 1..n : JSONChar(body[i + 2]) = msg[i]

\* The character a piece of HTML text stands for: the entity's character, a
\* character other than < and " for itself.
HTMLChar(piece) ==
    CASE piece \in {"a", "U+00E9", "U+1F600"} -> piece
      [] piece = "&lt;" -> "<"
      [] piece = "&#34;" -> "\""
      [] OTHER -> "invalid"

IsHTMLEscaped(body, msg) ==
    /\ Len(body) = Len(msg)
    /\ \A i \in 1..Len(msg) : HTMLChar(body[i]) = msg[i]

\* The content type Error goes by: the wrapper's, none for another writer.
ConfiguredType(w) == IF IsWrapper(w) THEN w.ContentType ELSE ""

\* C12 as stated: Error(w, msg, code) writes one body, chosen by the wrapper's
\* content type: a JSON object with the message in its error field for
\* application/json, the HTML-escaped message for text/html, and "error: " and
\* the message for text/plain, any other type, no type and a writer that is
\* not the wrapper; and it calls WriteHeader(code), after which the status the
\* wrapper captured is code.
C12_ErrorBodyAndStatus ==
    (pure.op = "Error" /\ pure.done) =>
        LET calls == SubSeq(Received(pure.w), Len(Received(pure.w0)) + 1,
                            Len(Received(pure.w)))
            written == SelectSeq(calls, LAMBDA c : c[1] = "Write")
            body == SubSeq(written[1][2], 1, Len(written[1][2]) - 1)
            ct == ConfiguredType(pure.w0)
        IN  /\ Len(written) = 1
            /\ written[1][2] = body \o <<"\n">>
            /\ CASE ct = "application/json" -> IsJSONError(body, pure.err, pure.code)
                 [] ct = "text/html" -> IsHTMLEscaped(body, pure.err)
                 [] OTHER -> body = <<"error: ">> \o pure.err
            /\ WriteHeaderCalls(calls) = <<<<"WriteHeader", pure.code>>>>
            /\ IsWrapper(pure.w0) => pure.w.StatusCode = pure.code

\* C13 as stated: however the Notify calls of several goroutines and the
\* publishing of requests interleave, the channel of every Notify that has
\* returned is in the registry (none lost, none removed), and a request whose
\* logRequest began its loop after a Notify had returned sends its Access on
\* that Notify's channel before the loop is over.
C13_RegistrationSafe ==
    /\ \A g \in Registrants : reg[g].pc = "returned" => g \in Range(notify)
    /\ \A r \in Reqs :
          (Publishing(r) /\ LoopDone(pub[r])) => hist[r].after \subseteq Range(hist[r].sends)

\* The access lines of the process log, in order.
AccessLines ==
    LET entries == SelectSeq(log, LAMBDA e : e.kind = "access")
    IN  [i \in 1..Len(entries) |-> entries[i].line]

\* The lines of a sequence of Accesses.
LinesOf(as) == [i \in 1..Len(as) |-> String(as[i])]

\* C18: with the default sink, the Accesses put on init()'s channel are
\* written to the process log once each, one whole line each, in the order
\* they were put on the channel: the access lines of the log followed by the
\* lines of the Accesses still in the channel are the lines of the Accesses put
\* on it; and under fair scheduling of the consumer every Access put on the
\* channel has its line in the log in the end.
C18_DefaultSinkDelivers ==
    /\ [](AccessLines \o LinesOf(chanBuf[DefaultChan]) = LinesOf(put))
    /\ \A n \in 1..MaxReqs : (Len(put) >= n) ~> (Len(AccessLines) >= n)

\* C18's case: the second request's Access was put on the channel before the
\* first one's, and both lines are in the log in that order.
C18_Witness ==
    /\ Len(put) = 2 /\ put[1].Request = 2 /\ put[2].Request = 1
    /\ put[1].Method = "DELETE" /\ put[2].Method = "GET"
    /\ AccessLines = <<String(put[1]), String(put[2])>>

=============================================================================
